---- MODULE Spec2Model ----
(***************************************************************************)
(* Model of the menu-driven password generator (src/main.py).              *)
(*                                                                         *)
(* Characters are ASCII code points, strings are sequences of code points. *)
(* The secure random source is a tape of draw selectors that is read       *)
(* cyclically: the k-th call to the source reads entry k of the tape.      *)
(***************************************************************************)
EXTENDS Integers, Sequences, FiniteSets, TLC

VARIABLES policy, pc, pool, result, tape, password, strength,
          draft, count, idx, output

vars == <<policy, pc, pool, result, tape, password, strength,
          draft, count, idx, output>>

(***************************************************************************)
(* Bounds of the model.                                                    *)
(***************************************************************************)
\* policy.length ranges over -1..MaxLen when generate_password is
\* exercised as a function
MaxLen == 4

\* a draw selector below MaxDraw picks that index, MaxDraw picks the last one
MaxDraw == 1

\* length of the random tape when generate_password is exercised as a function
TapeLen == 6

\* length of the random tape for one generate_password call from the menu
MenuTapeLen == 2

\* each run of one character class in an evaluate_strength input has at most
\* MaxRun characters
MaxRun == 8

\* the shuffle is analysed on working sequences of 1..MaxShuffle elements
MaxShuffle == 4

\* the numbers typed at an integer prompt go up to its minimum plus MaxExtra
MaxExtra == 1

(***************************************************************************)
(* Alphabets.                                                              *)
(***************************************************************************)
\* string.ascii_lowercase: a..z
ascii_lowercase == [i \in 1..26 |-> 96 + i]

\* string.ascii_uppercase: A..Z
ascii_uppercase == [i \in 1..26 |-> 64 + i]

\* string.digits: 0..9
digits == [i \in 1..10 |-> 47 + i]

\* the symbol set, character by character
SYMBOLS ==
    << 33, 64, 35, 36, 37, 94, 38, 42, 40, 41, 45, 95, 61,
       43, 91, 93, 123, 125, 59, 58, 44, 46, 60, 62, 63, 47 >>

Range(s) == {s[i] : i \in 1..Len(s)}

\* str.islower, str.isupper, str.isdigit on one ASCII character
islower(c) == c >= 97 /\ c <= 122
isupper(c) == c >= 65 /\ c <= 90
isdigit(c) == c >= 48 /\ c <= 57

(***************************************************************************)
(* PasswordPolicy and the outcome of a call.                               *)
(***************************************************************************)
PasswordPolicy(length, use_lowercase, use_uppercase, use_digits, use_symbols) ==
    [length |-> length, use_lowercase |-> use_lowercase,
     use_uppercase |-> use_uppercase, use_digits |-> use_digits,
     use_symbols |-> use_symbols]

DefaultPolicy(length) == PasswordPolicy(length, TRUE, TRUE, TRUE, TRUE)

\* the two messages PasswordGeneratorError is raised with
InvalidLength == "Password length must be a positive integer."
NoCategorySelected ==
    "No character types selected. Please enable at least one character category."

\* a call that returned v, having called `calls` in this order
Ok(v, calls) == [status |-> "ok", value |-> v, error |-> "", calls |-> calls]

\* a call that raised PasswordGeneratorError(msg)
Raise(msg, calls) ==
    [status |-> "error", value |-> <<>>, error |-> msg, calls |-> calls]

\* no call made yet
NoResult == [status |-> "none", value |-> <<>>, error |-> "", calls |-> <<>>]

(***************************************************************************)
(* build_character_pool                                                    *)
(***************************************************************************)
RECURSIVE Join(_)
Join(parts) ==
    IF parts = <<>> THEN <<>> ELSE Head(parts) \o Join(Tail(parts))

pool_parts_swapped(p) ==
    (IF p.use_lowercase THEN <<ascii_lowercase>> ELSE <<>>)
    \o (IF p.use_digits THEN <<digits>> ELSE <<>>)
    \o (IF p.use_uppercase THEN <<ascii_uppercase>> ELSE <<>>)
    \o (IF p.use_symbols THEN <<SYMBOLS>> ELSE <<>>)

pool_parts(p) ==
    (IF p.use_lowercase THEN <<ascii_lowercase>> ELSE <<>>)
    \o (IF p.use_uppercase THEN <<ascii_uppercase>> ELSE <<>>)
    \o (IF p.use_digits THEN <<digits>> ELSE <<>>)
    \o (IF p.use_symbols THEN <<SYMBOLS>> ELSE <<>>)

pool_is_empty_before_symbols(p) ==
    ~(p.use_lowercase \/ p.use_uppercase \/ p.use_digits)

pool_is_empty(p) == pool_parts(p) = <<>>

build_character_pool(p) ==
    IF pool_is_empty(p)
    THEN Raise(NoCategorySelected, <<>>)
    ELSE Ok(Join(pool_parts(p)), <<>>)

(***************************************************************************)
(* The random source.                                                      *)
(***************************************************************************)
Tapes(n) == [1..n -> 0..MaxDraw]

\* the selector the k-th draw reads
Entry(t, k) == t[((k - 1) % Len(t)) + 1]

\* secrets.randbelow(n): an index in 0..n-1, here the one selector r picks
randbelow(n, r) == IF r < MaxDraw /\ r < n THEN r ELSE n - 1

\* secrets.choice(seq)
choice(seq, r) == seq[randbelow(Len(seq), r) + 1]

(***************************************************************************)
(* generate_password                                                       *)
(***************************************************************************)
length_rejected_negative_only(p) == p.length < 0

length_rejected(p) == p.length <= 0

\* one character of each enabled category; draw k appends character k
seed(p, t) ==
    LET c1 == IF p.use_lowercase
              THEN <<choice(ascii_lowercase, Entry(t, 1))>> ELSE <<>>
        c2 == IF p.use_uppercase
              THEN Append(c1, choice(ascii_uppercase, Entry(t, Len(c1) + 1)))
              ELSE c1
        c3 == IF p.use_digits
              THEN Append(c2, choice(digits, Entry(t, Len(c2) + 1)))
              ELSE c2
        c4 == IF p.use_symbols
              THEN Append(c3, choice(SYMBOLS, Entry(t, Len(c3) + 1)))
              ELSE c3
    IN  c4

fill_needed_inclusive(password_chars, length) == Len(password_chars) <= length

fill_needed(password_chars, length) == Len(password_chars) < length

RECURSIVE fill(_, _, _, _)
fill(password_chars, chars, length, t) ==
    IF fill_needed(password_chars, length)
    THEN fill(Append(password_chars,
                     choice(chars, Entry(t, Len(password_chars) + 1))),
              chars, length, t)
    ELSE password_chars

swap_overwrite(s, i, j) == [s EXCEPT ![i + 1] = s[j + 1]]

\* password_chars[i], password_chars[j] = password_chars[j], password_chars[i]
swap(s, i, j) == [s EXCEPT ![i + 1] = s[j + 1], ![j + 1] = s[i + 1]]

\* for i in range(len(s)): j = js[i + 1]; swap
RECURSIVE shuffle_from(_, _, _)
shuffle_from(s, i, js) ==
    IF i < Len(s) THEN shuffle_from(swap(s, i, js[i + 1]), i + 1, js) ELSE s

shuffle(s, js) == shuffle_from(s, 0, js)

\* the indices the shuffle of n characters draws, after `used` earlier draws
shuffle_draws(n, used, t) ==
    [i \in 1..n |-> randbelow(n, Entry(t, used + i))]

generate_password(p, t) ==
    IF length_rejected(p)
    THEN Raise(InvalidLength, <<>>)
    ELSE LET made == build_character_pool(p) IN
         IF made.status = "error"
         THEN Raise(made.error, <<"build_character_pool">>)
         ELSE LET seeded == seed(p, t)
                  filled == fill(seeded, made.value, p.length, t)
                  n == Len(filled)
                  shuffled == shuffle(filled, shuffle_draws(n, n, t))
              IN  Ok(shuffled,
                     <<"build_character_pool">>
                     \o [k \in 1..n |-> "choice"]
                     \o [k \in 1..n |-> "randbelow"])

(***************************************************************************)
(* evaluate_strength                                                       *)
(***************************************************************************)
Bit(b) == IF b THEN 1 ELSE 0

label_inclusive(total_score) ==
    IF total_score <= 10 THEN "Weak"
    ELSE IF total_score <= 18 THEN "Moderate"
    ELSE IF total_score <= 26 THEN "Strong"
    ELSE "Very Strong"

label(total_score) ==
    IF total_score < 10 THEN "Weak"
    ELSE IF total_score < 18 THEN "Moderate"
    ELSE IF total_score < 26 THEN "Strong"
    ELSE "Very Strong"

evaluate_strength(pw) ==
    LET length_score == Len(pw)
        has_lower == \E i \in 1..Len(pw) : islower(pw[i])
        has_upper == \E i \in 1..Len(pw) : isupper(pw[i])
        has_digit == \E i \in 1..Len(pw) : isdigit(pw[i])
        has_symbol == \E i \in 1..Len(pw) : pw[i] \in Range(SYMBOLS)
        variety_score ==
            Bit(has_lower) + Bit(has_upper) + Bit(has_digit) + Bit(has_symbol)
        total_score == length_score + (2 * variety_score)
    IN  label(total_score)

(***************************************************************************)
(* Terminal input: get_yes_no, get_int                                     *)
(***************************************************************************)
\* str.strip on a line of spaces and printable characters
RECURSIVE lstrip(_)
lstrip(s) == IF s /= <<>> /\ Head(s) = 32 THEN lstrip(Tail(s)) ELSE s

RECURSIVE rstrip(_)
rstrip(s) ==
    IF s /= <<>> /\ s[Len(s)] = 32 THEN rstrip(SubSeq(s, 1, Len(s) - 1)) ELSE s

strip(s) == rstrip(lstrip(s))

\* str.lower on ASCII
lower(s) == [i \in 1..Len(s) |-> IF isupper(s[i]) THEN s[i] + 32 ELSE s[i]]

\* str.isdigit on an ASCII string
isdigit_str(s) == s /= <<>> /\ \A i \in 1..Len(s) : isdigit(s[i])

\* int(raw) of a string of ASCII digits
RECURSIVE int(_)
int(s) ==
    IF s = <<>> THEN 0
    ELSE 10 * int(SubSeq(s, 1, Len(s) - 1)) + (s[Len(s)] - 48)

\* str(n) of a natural number
RECURSIVE str(_)
str(n) == IF n < 10 THEN <<48 + n>> ELSE Append(str(n \div 10), 48 + (n % 10))

\* an optional bound of get_int: None, or the bound
None == <<>>
Some(v) == <<v>>

\* one line printed to the terminal: an item line carries the item's index,
\* the length of the password in it and the strength label
Line(kind, i, length, label_) ==
    [kind |-> kind, idx |-> i, length |-> length, strength |-> label_]

Message(kind) == Line(kind, 0, 0, "")

\* one pass of get_yes_no's loop over the line typed
get_yes_no(typed) ==
    LET ans == lower(strip(typed)) IN
    IF ans \in {<<121>>, <<121, 101, 115>>} THEN [ok |-> TRUE, value |-> TRUE]
    ELSE IF ans \in {<<110>>, <<110, 111>>} THEN [ok |-> TRUE, value |-> FALSE]
    ELSE [ok |-> FALSE, value |-> FALSE]

below_min(value, min_value) == min_value /= None /\ value < min_value[1]

above_max(value, max_value) == max_value /= None /\ value > max_value[1]

\* one pass of get_int's loop over the line typed
get_int(typed, min_value, max_value) ==
    LET raw == strip(typed) IN
    IF ~isdigit_str(raw)
    THEN [ok |-> FALSE, value |-> 0, message |-> "not_an_integer"]
    ELSE IF below_min(int(raw), min_value)
    THEN [ok |-> FALSE, value |-> 0, message |-> "below_min"]
    ELSE IF above_max(int(raw), max_value)
    THEN [ok |-> FALSE, value |-> 0, message |-> "above_max"]
    ELSE [ok |-> TRUE, value |-> int(raw), message |-> ""]

(***************************************************************************)
(* The lines a user may type.                                              *)
(***************************************************************************)
\* "", "abc", "-1", "4.5"
MalformedInts == {<<>>, <<97, 98, 99>>, <<45, 49>>, <<52, 46, 53>>}

TypedInts(lo, hi) ==
    {str(n) : n \in (IF lo = 0 THEN 0 ELSE lo - 1)..(lo + MaxExtra)}
    \cup {<<32>> \o str(lo) \o <<32>>, <<48>> \o str(lo)}
    \cup (IF hi = None THEN {} ELSE {str(hi[1]), str(hi[1] + 1)})
    \cup MalformedInts

\* y, yes, n, no, Y, NO, " y ", " No", x, "", yess
TypedAnswers ==
    { <<121>>, <<121, 101, 115>>, <<110>>, <<110, 111>>, <<89>>, <<78, 79>>,
      <<32, 121, 32>>, <<32, 78, 111>>, <<120>>, <<>>, <<121, 101, 115, 115>> }

\* 0..6, " 3 ", "", "12", "x"
TypedChoices ==
    {str(n) : n \in 0..6}
    \cup {<<32, 51, 32>>, <<>>, <<49, 50>>, <<120>>}

(***************************************************************************)
(* Program constants.                                                      *)
(***************************************************************************)
DefaultLength == 12
MinPolicyLength == 4
MinCount == 1
MaxCount == 50

(***************************************************************************)
(* State.                                                                  *)
(*   policy    the policy in force (main_menu's local, or the argument)    *)
(*   pc        where the program stands                                    *)
(*   pool      outcome of the build_character_pool call                    *)
(*   result    outcome of the generate_password or shuffle call            *)
(*   tape      the random draws of that call                               *)
(*   password  the argument of evaluate_strength or of the shuffle         *)
(*   strength  the label evaluate_strength returned                        *)
(*   draft     the answers given so far in prompt_for_policy               *)
(*   count     the number of passwords asked for                           *)
(*   idx       the loop index of generate_multiple_passwords_flow          *)
(*   output    the lines printed since the last line of input was read     *)
(***************************************************************************)
NoDraft == PasswordPolicy(0, FALSE, FALSE, FALSE, FALSE)

Policies ==
    {PasswordPolicy(n, a, b, c, d) :
        n \in (0 - 1)..MaxLen, a \in BOOLEAN, b \in BOOLEAN,
        c \in BOOLEAN, d \in BOOLEAN}

Idle ==
    /\ pool = NoResult
    /\ result = NoResult
    /\ tape = <<>>
    /\ password = <<>>
    /\ strength = ""
    /\ draft = NoDraft
    /\ count = 0
    /\ idx = 0
    /\ output = <<>>

(***************************************************************************)
(* build_character_pool and generate_password called on any policy.        *)
(***************************************************************************)
InitGen == policy \in Policies /\ pc = "call" /\ Idle

BuildPool ==
    /\ pc = "call"
    /\ pool' = build_character_pool(policy)
    /\ pc' = "pool_built"
    /\ UNCHANGED <<policy, result, tape, password, strength,
                   draft, count, idx, output>>

Generate ==
    /\ pc = "call"
    /\ \E t \in Tapes(TapeLen) :
          /\ tape' = t
          /\ result' = generate_password(policy, t)
    /\ pc' = "generated"
    /\ UNCHANGED <<policy, pool, password, strength,
                   draft, count, idx, output>>

NextGen == BuildPool \/ Generate

SpecGen == InitGen /\ [][NextGen]_vars

(***************************************************************************)
(* evaluate_strength called on strings over the pool alphabets.            *)
(***************************************************************************)
Run(c, k) == [i \in 1..k |-> c]

Ends(s) == {s[1], s[Len(s)]}

EvalInputs ==
    {Run(a, ka) \o Run(b, kb) \o Run(c, kc) \o Run(d, kd) :
        a \in Ends(ascii_lowercase), ka \in 0..MaxRun,
        b \in Ends(ascii_uppercase), kb \in 0..MaxRun,
        c \in Ends(digits), kc \in 0..MaxRun,
        d \in Ends(SYMBOLS), kd \in 0..MaxRun}

InitEval ==
    /\ password \in EvalInputs
    /\ policy = DefaultPolicy(DefaultLength)
    /\ pc = "call"
    /\ pool = NoResult /\ result = NoResult /\ tape = <<>> /\ strength = ""
    /\ draft = NoDraft /\ count = 0 /\ idx = 0 /\ output = <<>>

Evaluate ==
    /\ pc = "call"
    /\ strength' = evaluate_strength(password)
    /\ pc' = "evaluated"
    /\ UNCHANGED <<policy, pool, result, tape, password,
                   draft, count, idx, output>>

NextEval == Evaluate

SpecEval == InitEval /\ [][NextEval]_vars

(***************************************************************************)
(* The shuffle of generate_password on pairwise distinct characters; here  *)
(* the tape holds the indices drawn, any of 0..n-1 at each step.           *)
(***************************************************************************)
InitShuffle ==
    /\ \E n \in 1..MaxShuffle : password = SubSeq(ascii_lowercase, 1, n)
    /\ policy = DefaultPolicy(DefaultLength)
    /\ pc = "call"
    /\ pool = NoResult /\ result = NoResult /\ tape = <<>> /\ strength = ""
    /\ draft = NoDraft /\ count = 0 /\ idx = 0 /\ output = <<>>

IndexDraws(n) == [1..n -> 0..(n - 1)]

Shuffle ==
    /\ pc = "call"
    /\ \E js \in IndexDraws(Len(password)) :
          /\ tape' = js
          /\ result' = Ok(shuffle(password, js), [k \in 1..Len(js) |-> "randbelow"])
    /\ pc' = "shuffled"
    /\ UNCHANGED <<policy, pool, password, strength,
                   draft, count, idx, output>>

NextShuffle == Shuffle

SpecShuffle == InitShuffle /\ [][NextShuffle]_vars

(***************************************************************************)
(* generate_multiple_passwords_flow                                        *)
(***************************************************************************)
\* the line printed for item i
item_line(i, r) ==
    IF r.status = "ok"
    THEN Line("password", i, Len(r.value), evaluate_strength(r.value))
    ELSE Line("error", i, 0, "")

after_item_propagating(r) == IF r.status = "ok" THEN "batch" ELSE "menu"

\* the except clause handles the error and the loop goes on
after_item(r) == "batch"

AskCount ==
    /\ pc = "count"
    /\ \E typed \in TypedInts(MinCount, Some(MaxCount)) :
          LET got == get_int(typed, Some(MinCount), Some(MaxCount)) IN
          IF got.ok
          THEN /\ count' = got.value
               /\ idx' = 1
               /\ output' = <<Message("generated_passwords"), Message("rule")>>
               /\ pc' = "batch"
          ELSE /\ output' = <<Message(got.message)>>
               /\ UNCHANGED <<count, idx, pc>>
    /\ UNCHANGED <<policy, pool, result, tape, password, strength, draft>>

BatchItem ==
    /\ pc = "batch"
    /\ idx <= count
    /\ \E t \in Tapes(MenuTapeLen) :
          LET r == generate_password(policy, t) IN
          /\ output' = Append(output, item_line(idx, r))
          /\ pc' = after_item(r)
    /\ idx' = idx + 1
    /\ UNCHANGED <<policy, pool, result, tape, password, strength,
                   draft, count>>

BatchEnd ==
    /\ pc = "batch"
    /\ idx > count
    /\ output' = Append(output, Message("rule"))
    /\ pc' = "menu"
    /\ UNCHANGED <<policy, pool, result, tape, password, strength,
                   draft, count, idx>>

InitBatch == policy \in Policies /\ pc = "count" /\ Idle

NextBatch == AskCount \/ BatchItem \/ BatchEnd

SpecBatch == InitBatch /\ [][NextBatch]_vars

(***************************************************************************)
(* main_menu, prompt_for_policy, generate_single_password_flow             *)
(***************************************************************************)
no_category(p) ==
    ~(p.use_lowercase \/ p.use_uppercase \/ p.use_digits \/ p.use_symbols)

unchecked_policy(p) == p

\* the safety check at the end of prompt_for_policy
checked_policy(p) == IF no_category(p) THEN DefaultPolicy(p.length) ELSE p

single_lines(r) ==
    IF r.status = "ok"
    THEN <<Line("password", 0, Len(r.value), ""),
           Line("strength", 0, 0, evaluate_strength(r.value)),
           Message("rule")>>
    ELSE <<Line("error", 0, 0, "")>>

Chosen(typed, n) == strip(typed) = str(n)

MenuView ==
    /\ pc = "menu"
    /\ \E typed \in TypedChoices : Chosen(typed, 1)
    /\ output' = <<Line("policy", 0, policy.length, "")>>
    /\ UNCHANGED <<policy, pc, pool, result, tape, password, strength,
                   draft, count, idx>>

MenuChange ==
    /\ pc = "menu"
    /\ \E typed \in TypedChoices : Chosen(typed, 2)
    /\ draft' = NoDraft
    /\ output' = <<Message("configure")>>
    /\ pc' = "length"
    /\ UNCHANGED <<policy, pool, result, tape, password, strength, count, idx>>

AskLength ==
    /\ pc = "length"
    /\ \E typed \in TypedInts(MinPolicyLength, None) :
          LET got == get_int(typed, Some(MinPolicyLength), None) IN
          IF got.ok
          THEN /\ draft' = [draft EXCEPT !.length = got.value]
               /\ output' = <<>>
               /\ pc' = "lowercase"
          ELSE /\ output' = <<Message(got.message)>>
               /\ UNCHANGED <<draft, pc>>
    /\ UNCHANGED <<policy, pool, result, tape, password, strength, count, idx>>

\* one pass of get_yes_no for the question asked at `at`
Ask(at, field, then) ==
    /\ pc = at
    /\ \E typed \in TypedAnswers :
          LET got == get_yes_no(typed) IN
          IF got.ok
          THEN /\ draft' = [draft EXCEPT ![field] = got.value]
               /\ output' = <<>>
               /\ pc' = then
          ELSE /\ output' = <<Message("invalid_answer")>>
               /\ UNCHANGED <<draft, pc>>
    /\ UNCHANGED <<policy, pool, result, tape, password, strength, count, idx>>

AskLowercase == Ask("lowercase", "use_lowercase", "uppercase")

AskUppercase == Ask("uppercase", "use_uppercase", "digits")

AskDigits == Ask("digits", "use_digits", "symbols")

\* the last question, then the rest of prompt_for_policy and the assignment
\* of its result in main_menu
AskSymbols ==
    /\ pc = "symbols"
    /\ \E typed \in TypedAnswers :
          LET got == get_yes_no(typed)
              answered == [draft EXCEPT !.use_symbols = got.value]
          IN
          IF got.ok
          THEN /\ draft' = answered
               /\ policy' = checked_policy(answered)
               /\ output' = IF no_category(answered)
                            THEN <<Message("must_select"), Message("reverting")>>
                            ELSE <<>>
               /\ pc' = "menu"
          ELSE /\ output' = <<Message("invalid_answer")>>
               /\ UNCHANGED <<draft, policy, pc>>
    /\ UNCHANGED <<pool, result, tape, password, strength, count, idx>>

MenuSingle ==
    /\ pc = "menu"
    /\ \E typed \in TypedChoices : Chosen(typed, 3)
    /\ \E t \in Tapes(MenuTapeLen) :
          output' = single_lines(generate_password(policy, t))
    /\ UNCHANGED <<policy, pc, pool, result, tape, password, strength,
                   draft, count, idx>>

MenuMany ==
    /\ pc = "menu"
    /\ \E typed \in TypedChoices : Chosen(typed, 4)
    /\ output' = <<>>
    /\ pc' = "count"
    /\ UNCHANGED <<policy, pool, result, tape, password, strength,
                   draft, count, idx>>

MenuExit ==
    /\ pc = "menu"
    /\ \E typed \in TypedChoices : Chosen(typed, 5)
    /\ output' = <<Message("goodbye")>>
    /\ pc' = "exit"
    /\ UNCHANGED <<policy, pool, result, tape, password, strength,
                   draft, count, idx>>

MenuInvalid ==
    /\ pc = "menu"
    /\ \E typed \in TypedChoices : \A n \in 1..5 : ~Chosen(typed, n)
    /\ output' = <<Message("invalid_choice")>>
    /\ UNCHANGED <<policy, pc, pool, result, tape, password, strength,
                   draft, count, idx>>

Init == policy = DefaultPolicy(DefaultLength) /\ pc = "menu" /\ Idle

Next ==
    \/ MenuView
    \/ MenuChange
    \/ AskLength
    \/ AskLowercase
    \/ AskUppercase
    \/ AskDigits
    \/ AskSymbols
    \/ MenuSingle
    \/ MenuMany
    \/ AskCount
    \/ BatchItem
    \/ BatchEnd
    \/ MenuExit
    \/ MenuInvalid

Spec == Init /\ [][Next]_vars

(***************************************************************************)
(* Vocabulary of the properties.                                           *)
(***************************************************************************)
Categories == {"lowercase", "uppercase", "digits", "symbols"}

AlphabetOf(c) ==
    CASE c = "lowercase" -> ascii_lowercase
      [] c = "uppercase" -> ascii_uppercase
      [] c = "digits" -> digits
      [] c = "symbols" -> SYMBOLS

EnabledIn(p, c) ==
    CASE c = "lowercase" -> p.use_lowercase
      [] c = "uppercase" -> p.use_uppercase
      [] c = "digits" -> p.use_digits
      [] c = "symbols" -> p.use_symbols

EnabledCount(p) == Cardinality({c \in Categories : EnabledIn(p, c)})

Occurs(c, s) == \E i \in 1..Len(s) : s[i] \in Range(AlphabetOf(c))

CategoriesIn(s) == {c \in Categories : Occurs(c, s)}

IsDraw(call) == call \in {"choice", "randbelow"}

NoDrawIn(calls) == \A k \in 1..Len(calls) : ~IsDraw(calls[k])

Failed(r, msg) == r.status = "error" /\ r.error = msg

\* the concatenation of the enabled alphabets in the order lowercase,
\* uppercase, digits, symbols
EnabledAlphabets(p) ==
    (IF p.use_lowercase THEN ascii_lowercase ELSE <<>>)
    \o (IF p.use_uppercase THEN ascii_uppercase ELSE <<>>)
    \o (IF p.use_digits THEN digits ELSE <<>>)
    \o (IF p.use_symbols THEN SYMBOLS ELSE <<>>)

Distinct(s) == \A i, j \in 1..Len(s) : i /= j => s[i] /= s[j]

\* the number of occurrences of x in s
Occurrences(x, s) == Cardinality({i \in 1..Len(s) : s[i] = x})

SameMultiset(s, u) ==
    /\ Len(s) = Len(u)
    /\ \A x \in Range(s) \cup Range(u) : Occurrences(x, s) = Occurrences(x, u)

\* the orderings of a sequence of pairwise distinct elements
Orderings(s) ==
    {[i \in 1..Len(s) |-> s[f[i]]] :
        f \in {g \in [1..Len(s) -> 1..Len(s)] :
                  \A i, j \in 1..Len(s) : i /= j => g[i] /= g[j]}}

\* the number of draw sequences after which the shuffle of s yields u
Ways(s, u) == Cardinality({js \in IndexDraws(Len(s)) : shuffle(s, js) = u})

ItemLines == SelectSeq(output, LAMBDA l : l.kind \in {"password", "error"})

(***************************************************************************)
(* C1: for every policy with length >= number of enabled categories >= 1   *)
(* and every outcome of the draws, generate_password returns a string of   *)
(* exactly policy.length characters.                                       *)
(***************************************************************************)
C1_ExactLength ==
    (/\ pc = "generated"
     /\ EnabledCount(policy) >= 1
     /\ policy.length >= EnabledCount(policy))
    => (result.status = "ok" /\ Len(result.value) = policy.length)

C1_Witness ==
    /\ pc = "generated"
    /\ EnabledCount(policy) = 3
    /\ policy.length = 4
    /\ result.status = "ok"
    /\ Len(result.value) = 4

(***************************************************************************)
(* C2: for every policy with length >= 1 and a category enabled, and every *)
(* outcome of the draws, the password has a character of each enabled      *)
(* category and none of a disabled category.                               *)
(***************************************************************************)
C2_CategoriesPresent ==
    (pc = "generated" /\ policy.length >= 1 /\ EnabledCount(policy) >= 1)
    => /\ result.status = "ok"
       /\ \A c \in Categories : EnabledIn(policy, c) <=> Occurs(c, result.value)

C2_Witness ==
    /\ pc = "generated"
    /\ policy.length = 4
    /\ EnabledCount(policy) = 2
    /\ result.status = "ok"
    /\ Cardinality(CategoriesIn(result.value)) = 2

(***************************************************************************)
(* C3: generate_password fails with InvalidLength when the length is       *)
(* positive but smaller than the number of enabled categories, and a       *)
(* password it returns has exactly policy.length characters.               *)
(***************************************************************************)
C3_ShortLengthRejected ==
    pc = "generated"
    => /\ (policy.length > 0 /\ policy.length < EnabledCount(policy))
            => Failed(result, InvalidLength)
       /\ result.status = "ok" => Len(result.value) = policy.length

(***************************************************************************)
(* C4: build_character_pool fails with NoCategorySelected iff all four     *)
(* flags are false and returns a non-empty pool otherwise; with all flags  *)
(* false and length >= 1, generate_password fails the same way without any *)
(* random draw.                                                            *)
(***************************************************************************)
C4_NoCategorySelected ==
    /\ pc = "pool_built"
       => /\ Failed(pool, NoCategorySelected) <=> EnabledCount(policy) = 0
          /\ EnabledCount(policy) >= 1
               => (pool.status = "ok" /\ Len(pool.value) >= 1)
    /\ (pc = "generated" /\ policy.length >= 1 /\ EnabledCount(policy) = 0)
       => (Failed(result, NoCategorySelected) /\ NoDrawIn(result.calls))

C4_Witness ==
    /\ pc = "generated"
    /\ policy.length >= 1
    /\ EnabledCount(policy) = 0
    /\ Failed(result, NoCategorySelected)

(***************************************************************************)
(* C5: generate_password fails with InvalidLength whenever length <= 0,    *)
(* whatever the flags, before it builds a pool or draws.                   *)
(***************************************************************************)
C5_NonPositiveLength ==
    (pc = "generated" /\ policy.length <= 0)
    => (Failed(result, InvalidLength) /\ result.calls = <<>>)

C5_Witness ==
    /\ pc = "generated"
    /\ policy.length = 0
    /\ EnabledCount(policy) = 0
    /\ Failed(result, InvalidLength)

(***************************************************************************)
(* C6: evaluate_strength returns the label of the score length + 2 * the   *)
(* number of categories occurring in the string: Weak below 10, Moderate   *)
(* below 18, Strong below 26, Very Strong from 26 on; 8 lowercase letters  *)
(* are Moderate, 12 characters of all four categories are Strong.          *)
(***************************************************************************)
Score(s) == Len(s) + 2 * Cardinality(CategoriesIn(s))

C6_StrengthLabel ==
    pc = "evaluated"
    => /\ Score(password) < 10 <=> strength = "Weak"
       /\ (Score(password) >= 10 /\ Score(password) < 18)
            <=> strength = "Moderate"
       /\ (Score(password) >= 18 /\ Score(password) < 26)
            <=> strength = "Strong"
       /\ Score(password) >= 26 <=> strength = "Very Strong"
       /\ (Len(password) = 8 /\ CategoriesIn(password) = {"lowercase"})
            => strength = "Moderate"
       /\ (Len(password) = 12 /\ CategoriesIn(password) = Categories)
            => strength = "Strong"

C6_Witness ==
    /\ pc = "evaluated"
    /\ Len(password) = 12
    /\ CategoriesIn(password) = Categories
    /\ strength = "Strong"

(***************************************************************************)
(* C7 as stated: the pool is the concatenation of the enabled alphabets in *)
(* the order lowercase, uppercase, digits, symbols, has 26*[lower] +       *)
(* 26*[upper] + 10*[digits] + 27*[symbols] characters and no character     *)
(* twice.                                                                  *)
(***************************************************************************)
C7_PoolWith27Symbols ==
    (pc = "pool_built" /\ EnabledCount(policy) >= 1)
    => /\ pool.status = "ok"
       /\ pool.value = EnabledAlphabets(policy)
       /\ Len(pool.value) =
             26 * Bit(policy.use_lowercase) + 26 * Bit(policy.use_uppercase)
             + 10 * Bit(policy.use_digits) + 27 * Bit(policy.use_symbols)
       /\ Distinct(pool.value)

(***************************************************************************)
(* C7 amended: the same, the symbol set having 26 characters, so the pool  *)
(* has 26*[lower] + 26*[upper] + 10*[digits] + 26*[symbols] characters.    *)
(***************************************************************************)
C7_PoolConcatenation ==
    (pc = "pool_built" /\ EnabledCount(policy) >= 1)
    => /\ pool.status = "ok"
       /\ pool.value = EnabledAlphabets(policy)
       /\ Len(pool.value) =
             26 * Bit(policy.use_lowercase) + 26 * Bit(policy.use_uppercase)
             + 10 * Bit(policy.use_digits) + 26 * Bit(policy.use_symbols)
       /\ Distinct(pool.value)

C7_Witness ==
    /\ pc = "pool_built"
    /\ EnabledCount(policy) = 4
    /\ Len(pool.value) = 88

(***************************************************************************)
(* C8: a batch of count items (1 <= count <= 50) attempts the items in the *)
(* order 1..count, each prints exactly one line, a password with its       *)
(* strength or an error, and a failing item does not stop the loop.        *)
(***************************************************************************)
C8_BatchIsolation ==
    /\ pc \in {"batch", "menu"}
       => /\ count >= 1 /\ count <= 50
          /\ \A k \in 1..Len(ItemLines) : ItemLines[k].idx = k
    /\ pc = "batch" => (idx <= count + 1 /\ Len(ItemLines) = idx - 1)
    /\ pc = "menu" => Len(ItemLines) = count

C8_Witness ==
    /\ pc = "menu"
    /\ count = 2
    /\ Len(ItemLines) = 2
    /\ ItemLines[1].kind = "error"
    /\ ItemLines[2].kind = "error"

(***************************************************************************)
(* C9: the shuffle yields a rearrangement of its input, and each ordering  *)
(* of n pairwise distinct elements comes from the same number of equally   *)
(* likely draw sequences.                                                  *)
(***************************************************************************)
C9_UnbiasedShuffle ==
    pc = "shuffled"
    => /\ SameMultiset(result.value, password)
       /\ \A u \in Orderings(password) :
             Ways(password, u) = Ways(password, result.value)

(***************************************************************************)
(* C10: in the menu loop the policy always has length >= 4 and a category  *)
(* enabled; a dialog answered no four times leaves all four categories     *)
(* enabled with the chosen length; every password generated from the menu  *)
(* is generated without error and has policy.length characters.            *)
(***************************************************************************)
C10_MenuPolicyValid ==
    /\ policy.length >= 4
    /\ EnabledCount(policy) >= 1
    /\ (pc = "menu" /\ draft.length > 0 /\ EnabledCount(draft) = 0)
       => policy = PasswordPolicy(draft.length, TRUE, TRUE, TRUE, TRUE)
    /\ \A k \in 1..Len(output) :
          /\ output[k].kind /= "error"
          /\ output[k].kind = "password" => output[k].length = policy.length

C10_Witness ==
    /\ pc = "menu"
    /\ draft.length = 5
    /\ EnabledCount(draft) = 0
    /\ policy = PasswordPolicy(5, TRUE, TRUE, TRUE, TRUE)
    /\ Len(output) >= 1
    /\ output[1].kind = "password"
    /\ output[1].length = 5

====
